---- MODULE Spec2Model ----
(***************************************************************************)
(* Model of src/src/lib.rs: a Merkle tree with fan-out three.              *)
(*   MerkleTree::new / build_tree : lines 40-88                            *)
(*   MerkleTree::root_hash        : lines 90-95                            *)
(*   MerkleTree::proof            : lines 104-121                          *)
(*   MerkleTree::proof_recursion  : lines 123-152                          *)
(* The outer loop of build_tree and the recursion of proof_recursion are   *)
(* stepped one iteration / one call or return at a time.                   *)
(***************************************************************************)
EXTENDS Integers, Sequences, FiniteSets, TLC

\* Longest input vector handed to MerkleTree::new.
MaxLen == 4

\* Number of hash values.  The source's hash is a u64 (DefaultHasher); the
\* model keeps a deterministic mixing hash of reduced width (8 bits), so that
\* collisions exist and are observable.
HashMod == 256

\* The strings the inputs are drawn from.
Items == {"a", "b", "c", "d"}

\* ---------------------------------------------------------------------
\* Option<T>
\* ---------------------------------------------------------------------
None == [some |-> FALSE]

Some(v) == [some |-> TRUE, val |-> v]

\* ---------------------------------------------------------------------
\* Hashing.  DefaultHasher is fed a stream of words and finish() folds it.
\* ---------------------------------------------------------------------
Byte(d) == CASE d = "a" -> 97 [] d = "b" -> 98 [] d = "c" -> 99 [] OTHER -> 100

\* Hasher::write of one word into a hasher whose state is h.
Write(h, w) == (h * 31 + w + 7) % HashMod

\* impl Hash for str: the bytes of the string followed by 0xff.
HashStrInto(h, d) == Write(Write(h, Byte(d)), 255)

\* #[derive(Hash)] on Node: the discriminant, then the fields in declaration
\* order; Box<Node> hashes as the Node it holds.
RECURSIVE HashNodeInto(_, _)
HashNodeInto(h, n) ==
  IF n.kind = "Leaf"
  THEN HashStrInto(Write(Write(h, 0), n.hash), n.data)
  ELSE HashNodeInto(
         HashNodeInto(
           HashNodeInto(Write(Write(h, 1), n.hash), n.left),
           n.middle),
         n.right)

\* DefaultHasher::new(); d.hash(&mut hasher); hasher.finish()   (lines 43-45)
HashStr(d) == HashStrInto(17, d)

\* DefaultHasher::new(); left.hash; middle.hash; right.hash; finish()
\* (lines 67-72)
HashNodes(l, m, r) == HashNodeInto(HashNodeInto(HashNodeInto(17, l), m), r)

\* ---------------------------------------------------------------------
\* Node
\* ---------------------------------------------------------------------
Leaf(d) == [kind |-> "Leaf", hash |-> HashStr(d), data |-> d]

Branch(l, m, r) ==
  [kind |-> "Branch", hash |-> HashNodes(l, m, r), left |-> l, middle |-> m, right |-> r]

get_hash(n) == n.hash

\* ---------------------------------------------------------------------
\* Vec helpers
\* ---------------------------------------------------------------------
Last(s) == s[Len(s)]

Front(s) == SubSeq(s, 1, Len(s) - 1)

\* Vec::pop: the last element, or None on an empty vector.
Pop(s) == IF Len(s) = 0 THEN None ELSE Some(Last(s))

\* data.into_iter().map(|d| Leaf{..}).collect()
Leaves(S) == [i \in 1..Len(S) |-> Leaf(S[i])]

\* ---------------------------------------------------------------------
\* build_tree
\* ---------------------------------------------------------------------
\* Mutation: the popped middle and right nodes are discarded and left.clone()
\* is used in their place.
GroupAllLeft(nodes) ==
  LET left == Last(nodes)
      r1   == Front(nodes)
      r2   == IF Len(r1) = 0 THEN r1 ELSE Front(r1)
      r3   == IF Len(r2) = 0 THEN r2 ELSE Front(r2)
  IN  [branch |-> Branch(left, left, left), rest |-> r3]

\* Mutation: the shortfall pad for the right slot is taken from the middle node.
GroupPadMiddle(nodes) ==
  LET left   == Last(nodes)
      r1     == Front(nodes)
      middle == IF Len(r1) = 0 THEN left ELSE Last(r1)
      r2     == IF Len(r1) = 0 THEN r1 ELSE Front(r1)
      right  == IF Len(r2) = 0 THEN middle ELSE Last(r2)
      r3     == IF Len(r2) = 0 THEN r2 ELSE Front(r2)
  IN  [branch |-> Branch(left, middle, right), rest |-> r3]

\* One iteration of the inner loop (lines 63-81): three pops, the missing
\* ones replaced by left.clone(), and the branch that is pushed.
Group(nodes) ==
  LET left   == Last(nodes)
      r1     == Front(nodes)
      middle == IF Len(r1) = 0 THEN left ELSE Last(r1)
      r2     == IF Len(r1) = 0 THEN r1 ELSE Front(r1)
      right  == IF Len(r2) = 0 THEN left ELSE Last(r2)
      r3     == IF Len(r2) = 0 THEN r2 ELSE Front(r2)
  IN  [branch |-> Branch(left, middle, right), rest |-> r3]

\* Mutation: the inner loop only runs while a full triple is available.
RECURSIVE FoldLevelFullOnly(_, _)
FoldLevelFullOnly(nodes, new_level) ==
  IF Len(nodes) < 3 THEN new_level
  ELSE LET g == Group(nodes) IN FoldLevelFullOnly(g.rest, Append(new_level, g.branch))

\* The inner loop `while !nodes.is_empty()` (lines 62-82).
RECURSIVE FoldLevel(_, _)
FoldLevel(nodes, new_level) ==
  IF Len(nodes) = 0 THEN new_level
  ELSE LET g == Group(nodes) IN FoldLevel(g.rest, Append(new_level, g.branch))

\* Mutation: a lone leaf is folded too, so that the root is always a Branch.
LoopCondWrapLeaf(nodes) == Len(nodes) > 1 \/ (Len(nodes) = 1 /\ nodes[1].kind = "Leaf")

\* The outer loop condition `nodes.len() > 1` (line 59).
LoopCond(nodes) == Len(nodes) > 1

RECURSIVE BuildLoop(_)
BuildLoop(nodes) ==
  IF LoopCond(nodes) THEN BuildLoop(FoldLevel(nodes, <<>>)) ELSE Pop(nodes)

\* build_tree as a function of its argument (lines 54-88).
build_tree(nodes) == IF Len(nodes) = 0 THEN None ELSE BuildLoop(nodes)

\* root_hash (lines 90-95).
root_hash(r) == IF r.some THEN Some(r.val.hash) ELSE None

\* calculate_hash (lines 97-101).
calculate_hash(d) == Some(HashStr(d))

\* ---------------------------------------------------------------------
\* proof_recursion, one frame per active call
\* ---------------------------------------------------------------------
Frame(n) ==
  [node |-> n, stage |-> 0,
   found_left |-> FALSE, found_middle |-> FALSE, found_right |-> FALSE]

\* The child a Branch frame calls next (lines 130-132).
Child(n, stage) ==
  IF stage = 0 THEN n.left ELSE IF stage = 1 THEN n.middle ELSE n.right

\* The caller's frame once the call of its current stage has returned b.
Returned(f, b) ==
  IF f.stage = 0 THEN [f EXCEPT !.found_left = b, !.stage = 1]
  ELSE IF f.stage = 1 THEN [f EXCEPT !.found_middle = b, !.stage = 2]
  ELSE [f EXCEPT !.found_right = b, !.stage = 3]

\* Mutation: a Leaf reports a match whatever its hash.
LeafMatchesAlways(n, t) == n.hash = t \/ n.kind = "Leaf"

\* Node::Leaf { hash, .. } => *hash == target_hash (line 125).
LeafMatches(n, t) == n.hash = t

\* Mutation: the found_right arm is missing from the if-chain.
CombineNoRight(f, hs, ds) ==
  IF f.found_left
  THEN [found |-> TRUE, hashes |-> Append(hs, get_hash(f.node.left)),
        dirs |-> Append(ds, "Left")]
  ELSE IF f.found_middle
  THEN [found |-> TRUE, hashes |-> Append(hs, get_hash(f.node.middle)),
        dirs |-> Append(ds, "Middle")]
  ELSE [found |-> FALSE, hashes |-> hs, dirs |-> ds]

\* Mutation: the found_right arm pushes the hash but not the direction.
CombineNoDirection(f, hs, ds) ==
  IF f.found_left
  THEN [found |-> TRUE, hashes |-> Append(hs, get_hash(f.node.left)),
        dirs |-> Append(ds, "Left")]
  ELSE IF f.found_middle
  THEN [found |-> TRUE, hashes |-> Append(hs, get_hash(f.node.middle)),
        dirs |-> Append(ds, "Middle")]
  ELSE IF f.found_right
  THEN [found |-> TRUE, hashes |-> Append(hs, get_hash(f.node.right)), dirs |-> ds]
  ELSE [found |-> FALSE, hashes |-> hs, dirs |-> ds]

\* The if-chain after the three calls (lines 134-148): the value returned and
\* the two vectors as the arm leaves them.
Combine(f, hs, ds) ==
  IF f.found_left
  THEN [found |-> TRUE, hashes |-> Append(hs, get_hash(f.node.left)),
        dirs |-> Append(ds, "Left")]
  ELSE IF f.found_middle
  THEN [found |-> TRUE, hashes |-> Append(hs, get_hash(f.node.middle)),
        dirs |-> Append(ds, "Middle")]
  ELSE IF f.found_right
  THEN [found |-> TRUE, hashes |-> Append(hs, get_hash(f.node.right)),
        dirs |-> Append(ds, "Right")]
  ELSE [found |-> FALSE, hashes |-> hs, dirs |-> ds]

\* ---------------------------------------------------------------------
\* State
\* ---------------------------------------------------------------------
VARIABLES
  data,              \* the argument of MerkleTree::new
  nodes,             \* build_tree: the current level
  rounds,            \* build_tree: iterations of the outer loop so far
  root,              \* MerkleTree.root
  pc,                \* "idle", "building", "built", "search", "returned"
  target,            \* the argument of proof
  target_hash,       \* proof: target_hash
  proof_hashes,      \* proof: proof_hashes
  proof_directions,  \* proof: proof_directions
  stack,             \* the active calls of proof_recursion, innermost last
  result             \* the value proof returned

vars == <<data, nodes, rounds, root, pc, target, target_hash,
          proof_hashes, proof_directions, stack, result>>

buildVars == <<data, nodes, rounds, root>>

proofVars == <<target, target_hash, proof_hashes, proof_directions, stack, result>>

Inputs == UNION {[1..n -> Items] : n \in 0..MaxLen}

Init ==
  /\ data = <<>>
  /\ nodes = <<>>
  /\ rounds = 0
  /\ root = None
  /\ pc = "idle"
  /\ target = "a"
  /\ target_hash = 0
  /\ proof_hashes = <<>>
  /\ proof_directions = <<>>
  /\ stack = <<>>
  /\ result = None

\* MerkleTree::new up to the first test of the outer loop (lines 40-57).
New(S) ==
  /\ pc = "idle"
  /\ data' = S
  /\ nodes' = Leaves(S)
  /\ rounds' = 0
  /\ root' = None
  /\ pc' = IF Len(S) = 0 THEN "built" ELSE "building"
  /\ target' = "a"
  /\ target_hash' = 0
  /\ proof_hashes' = <<>>
  /\ proof_directions' = <<>>
  /\ stack' = <<>>
  /\ result' = None

\* One iteration of the outer loop (lines 59-85).
Round ==
  /\ pc = "building"
  /\ LoopCond(nodes)
  /\ nodes' = FoldLevel(nodes, <<>>)
  /\ rounds' = rounds + 1
  /\ UNCHANGED <<data, root, pc>>
  /\ UNCHANGED proofVars

\* Loop exit, nodes.pop() and MerkleTree { root } (lines 87, 51).
Finish ==
  /\ pc = "building"
  /\ ~LoopCond(nodes)
  /\ root' = Pop(nodes)
  /\ nodes' = Front(nodes)
  /\ pc' = "built"
  /\ UNCHANGED <<data, rounds>>
  /\ UNCHANGED proofVars

\* proof up to the first call of proof_recursion (lines 104-110); the `?` on
\* self.root.as_ref() returns None for an empty tree.
ProofCall(x) ==
  /\ pc \in {"built", "returned"}
  /\ target' = x
  /\ target_hash' = calculate_hash(x).val
  /\ proof_hashes' = <<>>
  /\ proof_directions' = <<>>
  /\ result' = None
  /\ IF root.some
     THEN stack' = <<Frame(root.val)>> /\ pc' = "search"
     ELSE stack' = <<>> /\ pc' = "returned"
  /\ UNCHANGED buildVars

\* The innermost call returns b, leaving the vectors hs and ds.  A return of
\* the outermost call completes proof (lines 112-120).
Return(b, hs, ds) ==
  /\ proof_hashes' = hs
  /\ proof_directions' = ds
  /\ IF Len(stack) = 1
     THEN /\ stack' = <<>>
          /\ pc' = "returned"
          /\ result' = IF b
                       THEN Some([target_hash |-> target_hash,
                                  proof_hashes |-> hs,
                                  proof_directions |-> ds])
                       ELSE None
     ELSE /\ stack' = Append(SubSeq(stack, 1, Len(stack) - 2),
                             Returned(stack[Len(stack) - 1], b))
          /\ UNCHANGED <<pc, result>>
  /\ UNCHANGED <<target, target_hash>>
  /\ UNCHANGED buildVars

\* Node::Leaf arm (line 125).
VisitLeaf ==
  /\ pc = "search"
  /\ Last(stack).node.kind = "Leaf"
  /\ Return(LeafMatches(Last(stack).node, target_hash), proof_hashes, proof_directions)

\* Node::Branch arm whose own hash is the target (lines 127-128).
VisitBranchHit ==
  /\ pc = "search"
  /\ Last(stack).node.kind = "Branch"
  /\ Last(stack).node.hash = target_hash
  /\ Return(TRUE, proof_hashes, proof_directions)

\* One of the three recursive calls (lines 130-132).
CallChild ==
  /\ pc = "search"
  /\ Last(stack).node.kind = "Branch"
  /\ Last(stack).node.hash # target_hash
  /\ Last(stack).stage < 3
  /\ stack' = Append(stack, Frame(Child(Last(stack).node, Last(stack).stage)))
  /\ UNCHANGED <<pc, target, target_hash, proof_hashes, proof_directions, result>>
  /\ UNCHANGED buildVars

\* The if-chain after the three calls (lines 134-148).
CombineReturn ==
  /\ pc = "search"
  /\ Last(stack).node.kind = "Branch"
  /\ Last(stack).node.hash # target_hash
  /\ Last(stack).stage = 3
  /\ LET c == Combine(Last(stack), proof_hashes, proof_directions)
     IN  Return(c.found, c.hashes, c.dirs)

NewAny == \E S \in Inputs : New(S)

ProofAny == \E x \in Items : ProofCall(x)

Next ==
  \/ NewAny
  \/ Round
  \/ Finish
  \/ ProofAny
  \/ VisitLeaf
  \/ VisitBranchHit
  \/ CallChild
  \/ CombineReturn

Spec == Init /\ [][Next]_vars

\* Construction alone.  build_tree runs to completion once called: its loop
\* is never abandoned.
BuildNext ==
  \/ NewAny
  \/ Round
  \/ Finish

BuildSpec == Init /\ [][BuildNext]_vars /\ WF_vars(Round) /\ WF_vars(Finish)

TypeOK ==
  /\ pc \in {"idle", "building", "built", "search", "returned"}
  /\ data \in Inputs
  /\ rounds \in 0..MaxLen
  /\ target \in Items
  /\ target_hash \in 0..(HashMod - 1)
  /\ Len(proof_hashes) <= 3 * MaxLen + 3

\* ---------------------------------------------------------------------
\* Vocabulary of the properties
\* ---------------------------------------------------------------------
Range(s) == {s[i] : i \in 1..Len(s)}

Dirs == {"Left", "Middle", "Right"}

ChildAt(n, d) == IF d = "Left" THEN n.left ELSE IF d = "Middle" THEN n.middle ELSE n.right

RECURSIVE Subtrees(_)
Subtrees(n) ==
  IF n.kind = "Leaf" THEN {n}
  ELSE {n} \cup Subtrees(n.left) \cup Subtrees(n.middle) \cup Subtrees(n.right)

\* The words written for a string and for a node.
StrStream(d) == <<Byte(d), 255>>

RECURSIVE NodeStream(_)
NodeStream(n) ==
  IF n.kind = "Leaf"
  THEN <<0, n.hash>> \o StrStream(n.data)
  ELSE <<1, n.hash>> \o NodeStream(n.left) \o NodeStream(n.middle) \o NodeStream(n.right)

\* What was written to the hasher that produced n.hash, with n.hash.
Hashed(n) ==
  [input |-> IF n.kind = "Leaf" THEN StrStream(n.data)
             ELSE NodeStream(n.left) \o NodeStream(n.middle) \o NodeStream(n.right),
   hash |-> n.hash]

HashedStr(d) == [input |-> StrStream(d), hash |-> HashStr(d)]

\* The hash has no collision among the hashed inputs P: equal hashes come
\* from equal inputs only.
CollisionFree(P) == \A p, q \in P : p.hash = q.hash => p.input = q.input

TreeInputs(r) == IF r.some THEN {Hashed(n) : n \in Subtrees(r.val)} ELSE {}

\* S without its i-th element.
Remove(S, i) == SubSeq(S, 1, i - 1) \o SubSeq(S, i + 1, Len(S))

\* The permutations of the sequence S.
RECURSIVE Perms(_)
Perms(S) ==
  IF Len(S) = 0 THEN {<<>>}
  ELSE UNION {{Append(p, S[i]) : p \in Perms(Remove(S, i))} : i \in 1..Len(S)}

Reverse(S) == [i \in 1..Len(S) |-> S[Len(S) + 1 - i]]

\* The subtree of n contains a node carrying the hash t.
Contains(n, t) == \E m \in Subtrees(n) : m.hash = t

\* The evidence of every path from n down to a node the search matches: one
\* (hash of the path node, its slot) pair per Branch above the match, innermost
\* first.
RECURSIVE PathProofs(_, _)
PathProofs(n, t) ==
  IF n.hash = t THEN {[hashes |-> <<>>, dirs |-> <<>>]}
  ELSE IF n.kind = "Leaf" THEN {}
  ELSE UNION {{[hashes |-> Append(p.hashes, ChildAt(n, d).hash),
                dirs |-> Append(p.dirs, d)] : p \in PathProofs(ChildAt(n, d), t)}
              : d \in Dirs}

\* ---------------------------------------------------------------------
\* Properties
\* ---------------------------------------------------------------------

\* C1 - Proof completeness: when proof(x) has returned for an item x that
\* occurs in the input S, the result is Some(proof) and the proof's
\* target_hash is hash(x).
C1_ProofCompleteness ==
  (pc = "returned" /\ target \in Range(data))
    => /\ result.some
       /\ result.val.target_hash = HashStr(target)

C1_Witness ==
  /\ pc = "returned"
  /\ Len(data) = 4
  /\ target = data[1]
  /\ target \notin {data[2], data[3], data[4]}
  /\ result.some

\* C2 - Proof soundness: provided the hash has no collision among the tree's
\* nodes and the target, proof(x) returns None when the tree is empty or x does
\* not occur in the input.
C2_ProofSoundness ==
  (/\ pc = "returned"
   /\ (Len(data) = 0 \/ target \notin Range(data))
   /\ CollisionFree(TreeInputs(root) \cup {HashedStr(target)}))
    => result = None

C2_Witness ==
  /\ pc = "returned"
  /\ Len(data) = 4
  /\ target \notin Range(data)
  /\ CollisionFree(TreeInputs(root) \cup {HashedStr(target)})
  /\ result = None

\* C3 (as stated) - for the input ["a","b"] the root is the Branch with
\* left = leaf(a), middle = leaf(b), right = leaf(a) and its hash is the
\* aggregate of these three in this order.
C3_Original ==
  (pc = "built" /\ data = <<"a", "b">>)
    => /\ root = Some(Branch(Leaf("a"), Leaf("b"), Leaf("a")))
       /\ root_hash(root) = Some(HashNodes(Leaf("a"), Leaf("b"), Leaf("a")))

\* C3 (amended) - for the input ["a","b"] the level is consumed from its back:
\* the root is the Branch with left = leaf(b), middle = leaf(a),
\* right = leaf(b) (the pad is a copy of the first consumed node, b), and its
\* hash is the aggregate of these three in this order.
C3_Amended ==
  (pc = "built" /\ data = <<"a", "b">>)
    => /\ root = Some(Branch(Leaf("b"), Leaf("a"), Leaf("b")))
       /\ root_hash(root) = Some(HashNodes(Leaf("b"), Leaf("a"), Leaf("b")))
       /\ rounds = 1

C3_Witness ==
  /\ pc = "built"
  /\ data = <<"a", "b">>
  /\ root.some
  /\ root.val.kind = "Branch"

\* C4 - Every recorded proof step is sibling evidence: the recorded hash is
\* the hash of the child in the recorded slot of some Branch, and the node on
\* the target's path is in another slot of that Branch.
C4_SiblingEvidence ==
  (pc = "returned" /\ result.some)
    => \A i \in 1..Len(result.val.proof_hashes) :
         \E b \in {n \in Subtrees(root.val) : n.kind = "Branch"} :
           \E s \in Dirs :
             /\ Contains(ChildAt(b, s), target_hash)
             /\ result.val.proof_directions[i] # s
             /\ result.val.proof_hashes[i] = ChildAt(b, result.val.proof_directions[i]).hash

\* C5 - Order sensitivity: provided the hash has no collision among the nodes
\* of the two trees, every permutation of the input that differs from it as a
\* sequence yields a different root hash.
C5_OrderSensitivity ==
  pc = "built"
    => \A r2 \in {build_tree(Leaves(S2)) : S2 \in Perms(data) \ {data}} :
         \/ root_hash(r2) # root_hash(root)
         \/ ~CollisionFree(TreeInputs(root) \cup TreeInputs(r2))

C5_Witness ==
  /\ pc = "built"
  /\ Len(data) = 4
  /\ Cardinality(Range(data)) = 4
  /\ CollisionFree(TreeInputs(root) \cup TreeInputs(build_tree(Leaves(Reverse(data)))))
  /\ root_hash(build_tree(Leaves(Reverse(data)))) # root_hash(root)

\* C6 - Singleton: for a one-item input [x] no folding round is performed, the
\* root is the Leaf of x, and root_hash() is Some(hash(x)).
C6_Singleton ==
  (pc \in {"built", "search", "returned"} /\ Len(data) = 1)
    => /\ rounds = 0
       /\ root = Some(Leaf(data[1]))
       /\ root_hash(root) = Some(HashStr(data[1]))

C6_Witness ==
  /\ pc = "built"
  /\ Len(data) = 1
  /\ root.some
  /\ root.val.kind = "Leaf"

\* C7 - One proof step per ancestor: a returned proof is the evidence of one
\* single path from the root to a matched node, one (hash, direction) pair per
\* Branch above the match, in leaf-to-root order.
C7_OneStepPerAncestor ==
  (pc = "returned" /\ result.some)
    => [hashes |-> result.val.proof_hashes, dirs |-> result.val.proof_directions]
         \in PathProofs(root.val, target_hash)

\* C8 - Padding rule: a folding round consumes the level from its back in
\* groups of three; group j starts at the node k - 3(j-1) of a level of k
\* nodes; with three or more nodes left the group is the three consumed nodes
\* in consumption order, with two left it is (n1, n2, n1), with one left it is
\* (n, n, n).
C8_RoundShape ==
  LET k == Len(nodes)
      m == Len(nodes')
  IN  /\ m = (k + 2) \div 3
      /\ \A j \in 1..m :
           LET first == k - 3 * (j - 1)
               l  == nodes[first]
               md == IF first >= 2 THEN nodes[first - 1] ELSE l
               r  == IF first >= 3 THEN nodes[first - 2] ELSE l
           IN  /\ nodes'[j].kind = "Branch"
               /\ nodes'[j].left = l
               /\ nodes'[j].middle = md
               /\ nodes'[j].right = r
               /\ nodes'[j].hash = HashNodes(l, md, r)

C8_PaddingRule == [][(pc = "building" /\ Len(nodes) > 1) => C8_RoundShape]_vars

C8_Witness ==
  /\ rounds = 2
  /\ Len(nodes) = 1
  /\ Cardinality(Range(data)) = 4
  /\ nodes[1].right = nodes[1].left
  /\ nodes[1].middle # nodes[1].left
  /\ nodes[1].left.middle = nodes[1].left.left
  /\ nodes[1].left.right = nodes[1].left.left
  /\ nodes[1].left.left = Leaf(data[1])
  /\ nodes[1].middle.left = Leaf(data[4])
  /\ nodes[1].middle.middle = Leaf(data[3])
  /\ nodes[1].middle.right = Leaf(data[2])

\* C9 - Termination of construction: a round turns a level of k >= 2 nodes
\* into one of ceil(k/3) nodes, fewer than k and never none; the loop is left
\* with exactly one node, which becomes the root; an empty input gives None
\* without any round; and every started construction completes.
C9_Termination ==
  /\ [][(pc = "building" /\ Len(nodes) >= 2)
          => /\ Len(nodes') = (Len(nodes) + 2) \div 3
             /\ Len(nodes') < Len(nodes)
             /\ Len(nodes') >= 1
             /\ pc' = "building"]_vars
  /\ [][(pc = "building" /\ pc' = "built")
          => /\ Len(nodes) = 1
             /\ root' = Some(nodes[1])]_vars
  /\ [](pc = "building" => Len(nodes) >= 1)
  /\ []((pc = "built" /\ Len(data) = 0) => (root = None /\ rounds = 0))
  /\ []((pc = "built" /\ Len(data) >= 1) => root.some)
  /\ (pc = "building") ~> (pc = "built")

C9_Witness ==
  /\ pc = "built"
  /\ Len(data) = 4
  /\ rounds = 2
  /\ root.some

\* C10 - Well-formed proofs: the two vectors have the same length at every
\* call and return of the search and in every returned Proof, and after a
\* failed search both are empty.
C10_WellFormed ==
  /\ Len(proof_hashes) = Len(proof_directions)
  /\ result.some
       => Len(result.val.proof_hashes) = Len(result.val.proof_directions)
  /\ (pc = "returned" /\ ~result.some)
       => (proof_hashes = <<>> /\ proof_directions = <<>>)

C10_Witness ==
  /\ pc = "search"
  /\ Len(stack) >= 2
  /\ Len(proof_hashes) >= 2
  /\ Len(proof_directions) = Len(proof_hashes)

====
